---- MODULE Spec2Model ----
(***************************************************************************)
(* A model of build_blog.py, a static blog generator: blog entries read    *)
(* their markup from a local file or from the README.rst of a cloned git   *)
(* repository, insert a "Posted on <date>" line, have rst2html render the  *)
(* markup, splice fixed HTML fragments into the rendered page and write    *)
(* it; an index page lists excerpts of the first entries.                  *)
(*                                                                         *)
(* Text is a sequence of tokens.  A token is a one-character string,       *)
(* except for the template fragments ICON, HEADER, FOOTER and the three    *)
(* pieces of DISQUS, each of which is one token holding the literal of     *)
(* the source (none of them contains "<head>", "<body>" or "</body>").     *)
(***************************************************************************)
EXTENDS Integers, Sequences, FiniteSets, TLC

VARIABLES
    sources,    \* SOURCES: the ordered sequence of blog entries
    files,      \* the local source files, by path
    compiled,   \* BlogEntry._compiled, by entry
    fetched,    \* GitBlogEntry._src, by entry (some = hasattr(self, "_src"))
    outdir,     \* the output directory: exists, pages, by (run that wrote a page), resources
    tmpdirs,    \* the scratch directories that exist (tempfile.mkdtemp)
    clones,     \* history: invocations of git clone, by entry
    failures,   \* history: read() calls that cloned and raised, by entry
    firstRet,   \* history: the value the first compile() returned, by entry
    last,       \* history: the last call, its inputs and its outcome
    calls,      \* history: number of calls made so far
    pc,         \* position of the script's main block
    idx,        \* main block: index of the next entry to write
    run,        \* number of the current run of the script
    snapshot    \* history: the output directory as the current run found it

vars == <<sources, files, compiled, fetched, outdir, tmpdirs, clones, failures,
          firstRet, last, calls, pc, idx, run, snapshot>>

----------------------------------------------------------------------------
\* Bounds of the model.

\* most calls made on the entries in one behaviour
MaxCalls == 3

\* longest site (sequence of entries) handed to make_index_html
MaxEntries == 7

\* most runs of the script against one output directory
MaxRuns == 2

----------------------------------------------------------------------------
\* Program constants.

\* sources[:6] in make_index_html
IndexEntries == 6

\* s.get_source()[:300] in make_index_html
ExcerptLen == 300

\* lines.insert(2, ...) in get_source
PostedIndex == 2

----------------------------------------------------------------------------
\* Text: the operations of Python's str and list that the program uses.

NL == "\n"

\* the character U+0060 (grave accent), which a string of this language cannot
\* hold: one token, like every other character
BackTick == "U+0060"

Min(a, b) == IF a < b THEN a ELSE b

\* c * n
Rep(c, n) == [i \in 1..n |-> c]

\* s[:n]
Slice(s, n) == SubSeq(s, 1, Min(n, Len(s)))

\* the places where pat occurs in s at or after place i
Occurrences(s, pat, i) ==
    {j \in i..(Len(s) - Len(pat) + 1) : SubSeq(s, j, j + Len(pat) - 1) = pat}

Least(S) == CHOOSE x \in S : \A y \in S : x <= y

\* pat in s
Contains(s, pat) == Occurrences(s, pat, 1) # {}

RECURSIVE CountFrom(_, _, _)
CountFrom(s, pat, i) ==
    LET occ == Occurrences(s, pat, i)
    IN  IF occ = {} THEN 0 ELSE 1 + CountFrom(s, pat, Least(occ) + Len(pat))

\* s.count(pat): occurrences that do not overlap, from the left
Count(s, pat) == CountFrom(s, pat, 1)

RECURSIVE ReplaceFrom(_, _, _, _)
ReplaceFrom(s, old, new, i) ==
    LET occ == Occurrences(s, old, i)
    IN  IF occ = {}
        THEN SubSeq(s, i, Len(s))
        ELSE LET j == Least(occ)
             IN  SubSeq(s, i, j - 1) \o new \o ReplaceFrom(s, old, new, j + Len(old))

\* s.replace(old, new), old not empty
Replace(s, old, new) == ReplaceFrom(s, old, new, 1)

RECURSIVE SplitFrom(_, _, _)
SplitFrom(s, sep, i) ==
    LET occ == Occurrences(s, sep, i)
    IN  IF occ = {}
        THEN <<SubSeq(s, i, Len(s))>>
        ELSE LET j == Least(occ)
             IN  <<SubSeq(s, i, j - 1)>> \o SplitFrom(s, sep, j + Len(sep))

\* s.split(sep)
Split(s, sep) == SplitFrom(s, sep, 1)

RECURSIVE Join(_, _)
\* sep.join(lines)
Join(lines, sep) ==
    IF lines = <<>> THEN <<>>
    ELSE IF Len(lines) = 1 THEN lines[1]
    ELSE lines[1] \o sep \o Join(Tail(lines), sep)

\* lines.insert(i, x), i >= 0: before index i, at the end when i >= len(lines)
Insert(lines, i, x) ==
    LET k == Min(i, Len(lines))
    IN  SubSeq(lines, 1, k) \o <<x>> \o SubSeq(lines, k + 1, Len(lines))

----------------------------------------------------------------------------
\* The literals of the program, character by character.

\* "Posted on " of "\nPosted on %s\n"
PostedOn ==
    <<"P", "o", "s", "t", "e", "d", " ", "o", "n", " ">>

\* "%s.html"
HtmlSuffix ==
    <<".", "h", "t", "m", "l">>

\* the marker "<head>"
HeadTag ==
    <<"<", "h", "e", "a", "d", ">">>

\* the marker "<body>"
BodyTag ==
    <<"<", "b", "o", "d", "y", ">">>

\* the marker "</body>"
EndBodyTag ==
    <<"<", "/", "b", "o", "d", "y", ">">>

\* "http://johannes.tax/%s"
SiteUrl ==
    <<"h", "t", "t", "p", ":", "/", "/", "j", "o", "h", "a", "n", "n", "e", "s", ".", "t", "a", "x", "/">>

\* the heading compile_rst appends when it has a comments_id
CommentsHeading ==
    <<"\n", "\n", "C", "o", "m", "m", "e", "n", "t", "s", "\n", "-", "-", "-", "-", "-", "-", "-", "-", "\n", "\n">>

\* the heading of the index page
IndexHeading ==
    <<"L", "a", "t", "e", "s", "t", " ", "P", "o", "s", "t", "s", "\n", "=", "=", "=", "=", "=", "=", "=", "=", "=", "=", "=", "=", "\n", "\n">>

\* "%s ... "
Ellipsis ==
    <<" ", ".", ".", ".", " ">>

\* "`Read more <%s>`__\n\n", before the file name
ReadMoreOpen ==
    <<BackTick, "R", "e", "a", "d", " ", "m", "o", "r", "e", " ", "<">>

\* "`Read more <%s>`__\n\n", after the file name
ReadMoreClose ==
    <<">", BackTick, "_", "_", "\n", "\n">>

\* the file the main block writes the index to
IndexName ==
    <<"i", "n", "d", "e", "x", ".", "h", "t", "m", "l">>

\* The template fragments, one token each.

ICON ==
    <<"<link rel=\"icon\" href=\"resources/JT.jpeg\"/>">>

HEADER ==
    <<"\n<table style=\"margin-top: 2em; width: 100%; border: none;\">\n    <tr style=\"border: none;\">\n        <td style=\"border: none;\">\n            <img src=\"resources/JT.jpeg\" style=\"width: 3em;\"/>\n        </td>\n        <td style=\"border: none; text-align: right;\">\n            <span style=\"margin-left: 2em;\">\n                <a href=\"index.html\">posts</a>\n            </span>\n            <span style=\"margin-left: 2em;\">\n                <a href=\"https://github.com/pyohannes\">github</a>\n            </span>\n            <span style=\"margin-left: 2em;\">\n                <a href=\"mailto:johannes@johannes.tax\">email</a>\n            </span>\n        </td>\n    </tr>\n</table>\n">>

FOOTER ==
    <<"\n<p style=\"font-size: 0.6em;\">\n  &copy; 2018 \n  <a href=\"http://johannes.tax\">Johannes Tax</a> \n  (<a href=\"mailto:johannes@johannes.tax\">johannes@johannes.tax</a>)\n</p>\n">>

DISQUS_1 ==
    <<"\n<div id=\"disqus_thread\"></div>\n<script>\n\n/**\n*  RECOMMENDED CONFIGURATION VARIABLES: EDIT AND UNCOMMENT THE SECTION BELOW TO INSERT DYNAMIC VALUES FROM YOUR PLATFORM OR CMS.\n*  LEARN WHY DEFINING THESE VARIABLES IS IMPORTANT: https://disqus.com/admin/universalcode/#configuration-variables*/\nvar disqus_config = function () {\nthis.page.url = '">>

DISQUS_2 ==
    <<"';  // Replace PAGE_URL with your page's canonical URL variable\nthis.page.identifier = '">>

DISQUS_3 ==
    <<"'; // Replace PAGE_IDENTIFIER with your page's unique identifier variable\n};\n(function() { // DON'T EDIT BELOW THIS LINE\nvar d = document, s = d.createElement('script');\ns.src = 'https://johannes-tax.disqus.com/embed.js';\ns.setAttribute('data-timestamp', +new Date());\n(d.head || d.body).appendChild(s);\n})();\n</script>\n<noscript>Please enable JavaScript to view the <a href=\"https://disqus.com/?ref_noscript\">comments powered by Disqus.</a></noscript>\n">>

----------------------------------------------------------------------------
\* The inputs of the model: titles, dates, source texts, renderer output.

\* a source document: title, underline, blank line, body
HelloSrc ==
    <<"H", "e", "l", "l", "o", "\n", "=", "=", "=", "=", "=", "\n", "\n", "B", "o", "d", "y", " ", "t", "e", "x", "t", ".", "\n">>

\* another source document, with no blank line after the underline
OtherSrc ==
    <<"N", "e", "w", "s", "\n", "=", "=", "=", "=", "\n", "M", "o", "r", "e", ".", "\n">>

\* the README.rst of the cloned repository
ReadmeSrc ==
    <<"T", "o", "o", "l", "\n", "-", "-", "-", "-", "\n", "\n", "U", "s", "a", "g", "e", ".", "\n">>

\* a source of one line, with no line break
OneLineSrc ==
    <<"T", "=", "1">>

\* titles
TitleHello ==
    <<"H", "e", "l", "l", "o", " ", "W", "o", "r", "l", "d">>

TitleEq ==
    <<"a", " ", "=", " ", "b">>

TitleGit ==
    <<"U", "n", "i", "t", " ", "t", "e", "s", "t", "i", "n", "g">>

TitleLong ==
    <<"L", "o", "n", "g">>

TitleEdge ==
    <<"E", "d", "g", "e">>

TitleEmpty ==
    <<"E", "m", "p", "t", "y">>

TitleTag ==
    <<"<", "/", "b", "o", "d", "y", ">">>

\* dates
Date2020 ==
    <<"2", "0", "2", "0", "-", "0", "1", "-", "0", "1">>

Date2017 ==
    <<"2", "0", "1", "7", "-", "0", "4", "-", "2", "5">>

\* the rendered page around the document's body
HtmlOpen ==
    <<"<", "h", "t", "m", "l", ">", "<", "h", "e", "a", "d", ">">>

HtmlMid ==
    <<"<", "/", "h", "e", "a", "d", ">", "<", "b", "o", "d", "y", ">">>

HtmlClose ==
    <<"<", "/", "b", "o", "d", "y", ">", "<", "/", "h", "t", "m", "l", ">">>

\* a page left in the output directory by an earlier build
OldPage ==
    <<"<", "p", ">", "o", "l", "d", "<", "/", "p", ">">>

----------------------------------------------------------------------------
\* Values.

\* None, and a value that is not None
None == [some |-> FALSE, val |-> <<>>]
Some(v) == [some |-> TRUE, val |-> v]

\* Python's truth value of an optional string: None and "" are false
Truthy(o) == o.some /\ o.val # <<>>

\* the outcome of a call: the world it leaves, and its value or its exception
Ok(w, v) == [w |-> w, ok |-> TRUE, err |-> "", val |-> v]
Raise(w, e) == [w |-> w, ok |-> FALSE, err |-> e, val |-> <<>>]

\* The state the operations act on, with what the call under way has done so
\* far: clones, source reads, renderer runs, scratch directories made, whether
\* the output file was opened, the value compile() returned, the renderer's
\* output, the markup of the index and the entries that have a block in it.
World ==
    [files |-> files, compiled |-> compiled, fetched |-> fetched,
     outdir |-> outdir, tmpdirs |-> tmpdirs, clones |-> clones,
     failures |-> failures,
     nclone |-> 0, nread |-> 0, nrender |-> 0, ndirs |-> 0, opened |-> FALSE,
     cret |-> None, raw |-> <<>>, rst |-> <<>>, blocks |-> <<>>]

----------------------------------------------------------------------------
\* The file system.

\* the name tempfile.mkdtemp() picks: one no existing directory has
NewDir(w) ==
    Least({n \in 0..Cardinality(DOMAIN w.tmpdirs) : n \notin DOMAIN w.tmpdirs})

\* tempfile.mkdtemp(), called by `by`
Mkdtemp(w, d, by) ==
    [w EXCEPT !.tmpdirs = (d :> [by |-> by, readme |-> None]) @@ @,
              !.ndirs = @ + 1]

\* shutil.rmtree(tmpdir)
Rmtree(w, d) ==
    [w EXCEPT !.tmpdirs = [k \in (DOMAIN @) \ {d} |-> @[k]]]

\* f.write(text) on the file open(fname, "w") made: the file holds text,
\* written by this run
PutPage(o, name, text) ==
    [o EXCEPT !.pages = (name :> text) @@ @, !.by = (name :> run) @@ @]

\* open(fname, "w"): the file exists and is empty
Opened(w, name) ==
    [w EXCEPT !.outdir = PutPage(@, name, <<>>), !.opened = TRUE]

----------------------------------------------------------------------------
\* The external tools.

\* what "git clone <source> <tmpdir>" can leave in tmpdir: the repository
\* with its README.rst, a repository with no README.rst, or nothing (the
\* clone failed; its exit status is not looked at)
CloneOutcomes ==
    {[kind |-> "ok", readme |-> ReadmeSrc],
     [kind |-> "noreadme", readme |-> <<>>],
     [kind |-> "failed", readme |-> <<>>]}

\* what rst2html can print: a page, nothing (it failed), or markup with
\* none of the markers
RenderOutcomes == {"page", "empty", "bare"}

\* the renderer writes "<" of the document as an entity
Escape(doc) == Replace(doc, <<"<">>, <<"&", "l", "t", ";">>)

rst2html(doc, rn) ==
    CASE rn = "page" -> HtmlOpen \o HtmlMid \o Escape(doc) \o HtmlClose
      [] rn = "empty" -> <<>>
      [] OTHER -> Escape(doc)

----------------------------------------------------------------------------
\* compile_rst

\* DISQUS % (url, id)
DISQUS(url, id) == DISQUS_1 \o url \o DISQUS_2 \o id \o DISQUS_3

\* out.replace("<head>", "<head>\n%s" % ICON)
SpliceIcon(out) == Replace(out, HeadTag, HeadTag \o <<NL>> \o ICON)

\* out.replace("<body>", "<body>\n%s" % HEADER)
SpliceHeader(out) == Replace(out, BodyTag, BodyTag \o <<NL>> \o HEADER)

\* if comments_id: out.replace("</body>", "%s</body>" % commentfooter)
SpliceComments(out, comments_id) ==
    IF Truthy(comments_id)
    THEN Replace(out, EndBodyTag,
                 DISQUS(SiteUrl \o comments_id.val, comments_id.val) \o EndBodyTag)
    ELSE out

\* out.replace("</body>", "%s</body>" % FOOTER)
SpliceFooter(out) == Replace(out, EndBodyTag, FOOTER \o EndBodyTag)

\* the four replacements, in the order of the code
Splice(out, comments_id) ==
    SpliceFooter(SpliceComments(SpliceHeader(SpliceIcon(out)), comments_id))

\* the document written to tmpfile
Document(rst, comments_id) ==
    rst \o (IF Truthy(comments_id) THEN CommentsHeading ELSE <<>>)

\* the renderer has printed out: splice, and remove the scratch directory d
Rendered(w, d, out, comments_id) ==
    Ok(Rmtree([w EXCEPT !.nrender = @ + 1, !.raw = out], d),
       Splice(out, comments_id))

compile_rst(w, rst, comments_id, rn) ==
    Rendered(Mkdtemp(w, NewDir(w), "compile_rst"), NewDir(w),
             rst2html(Document(rst, comments_id), rn), comments_id)

----------------------------------------------------------------------------
\* BlogEntry, TextBlogEntry, GitBlogEntry

filename(e) == Replace(sources[e].title, <<" ">>, <<"_">>) \o HtmlSuffix

\* TextBlogEntry.read
TextRead(w, e) ==
    IF w.files[sources[e].source].some
    THEN Ok([w EXCEPT !.nread = @ + 1], w.files[sources[e].source].val)
    ELSE Raise(w, "IOError")

\* subprocess.call(["git", "clone", self.source, tmpdir])
Clone(w, d, e, cl) ==
    [w EXCEPT !.tmpdirs[d].readme = IF cl.kind = "ok" THEN Some(cl.readme) ELSE None,
              !.clones[e] = @ + 1,
              !.nclone = @ + 1]

\* ReadReadme with the scratch directory removed only after the with block,
\* not in a finally clause
ReadReadmeNoFinally(w, d, e) ==
    IF w.tmpdirs[d].readme.some
    THEN Ok(Rmtree([w EXCEPT !.fetched[e] = Some(w.tmpdirs[d].readme.val),
                             !.nread = @ + 1], d),
            w.tmpdirs[d].readme.val)
    ELSE Raise([w EXCEPT !.failures[e] = @ + 1], "IOError")

\* the with block that reads README.rst, and the finally clause
ReadReadme(w, d, e) ==
    IF w.tmpdirs[d].readme.some
    THEN Ok(Rmtree([w EXCEPT !.fetched[e] = Some(w.tmpdirs[d].readme.val),
                             !.nread = @ + 1], d),
            w.tmpdirs[d].readme.val)
    ELSE Raise(Rmtree([w EXCEPT !.failures[e] = @ + 1], d), "IOError")

\* GitBlogEntry.read without the test of hasattr(self, "_src")
GitReadUncached(w, e, cl) ==
    ReadReadme(Clone(Mkdtemp(w, NewDir(w), "read"), NewDir(w), e, cl),
               NewDir(w), e)

\* GitBlogEntry.read
GitRead(w, e, cl) ==
    IF w.fetched[e].some
    THEN Ok(w, w.fetched[e].val)
    ELSE ReadReadme(Clone(Mkdtemp(w, NewDir(w), "read"), NewDir(w), e, cl),
                    NewDir(w), e)

read(w, e, cl) ==
    IF sources[e].kind = "git" THEN GitRead(w, e, cl) ELSE TextRead(w, e)

\* the inserted line without its line breaks
PostedLineBare(e) == PostedOn \o sources[e].date

\* the line get_source inserts
PostedLine(e) == <<NL>> \o PostedOn \o sources[e].date \o <<NL>>

\* get_source, once read() has returned or raised
PostedSource(r, e) ==
    IF ~r.ok THEN r
    ELSE Ok(r.w, Join(Insert(Split(r.val, <<NL>>), PostedIndex, PostedLine(e)),
                      <<NL>>))

get_source(w, e, cl) == PostedSource(read(w, e, cl), e)

\* self._compiled = compile_rst(...); return self._compiled
Cached(c, e) ==
    Ok([c.w EXCEPT !.compiled[e] = Some(c.val), !.cret = Some(c.val)], c.val)

\* compile, once get_source() has returned or raised
CompiledSource(g, e, rn) ==
    IF ~g.ok THEN g
    ELSE Cached(compile_rst(g.w, g.val, Some(filename(e)), rn), e)

compile(w, e, cl, rn) ==
    IF Truthy(w.compiled[e])
    THEN Ok([w EXCEPT !.cret = Some(w.compiled[e].val)], w.compiled[e].val)
    ELSE CompiledSource(get_source(w, e, cl), e, rn)

\* write with compile() called before the file is opened
WrittenLate(c, name) ==
    IF ~c.ok THEN c
    ELSE Ok([c.w EXCEPT !.outdir = PutPage(@, name, c.val), !.opened = TRUE], name)

writeCompileFirst(w, e, cl, rn) ==
    IF ~w.outdir.exists
    THEN Raise(w, "IOError")
    ELSE WrittenLate(compile(w, e, cl, rn), filename(e))

\* f.write(self.compile()), once compile() has returned or raised
Written(c, name) ==
    IF ~c.ok THEN c
    ELSE Ok([c.w EXCEPT !.outdir = PutPage(@, name, c.val)], name)

write(w, e, cl, rn) ==
    IF ~w.outdir.exists
    THEN Raise(w, "IOError")
    ELSE Written(compile(Opened(w, filename(e)), e, cl, rn), filename(e))

----------------------------------------------------------------------------
\* make_index_html

\* sources, with no slice
IndexSliceAll(n) == n

\* sources[:6]
IndexSlice(n) == Min(n, IndexEntries)

\* '`%s <%s>`_' % (lines[0], s.filename)
Link(line, fname) ==
    <<BackTick>> \o line \o <<" ", "<">> \o fname \o <<">", BackTick, "_">>

\* lines[0] = link; lines[1] = '-' * len(lines[0]); '\n'.join(lines):
\* None when lines[1] does not exist (IndexError)
Rewritten(lines, link) ==
    IF Len(lines) < 2 THEN None
    ELSE Some(Join([lines EXCEPT ![1] = link, ![2] = Rep("-", Len(link))], <<NL>>))

\* the snippet cut one character later
SnippetWide(text) == Replace(Slice(text, ExcerptLen + 1), <<"=">>, <<"-">>)

\* the snippet with its "=" kept
SnippetKept(text) == Slice(text, ExcerptLen)

\* s.get_source()[:300].replace('=', '-')
Snippet(text) == Replace(Slice(text, ExcerptLen), <<"=">>, <<"-">>)

\* the lines of the excerpt, rewritten
Excerpt(text, fname) ==
    Rewritten(Split(Snippet(text), <<NL>>),
              Link(Split(Snippet(text), <<NL>>)[1], fname))

\* the excerpt, " ... " and the "Read more" link
Block(excerpt, fname) ==
    excerpt \o Ellipsis \o ReadMoreOpen \o fname \o ReadMoreClose

RECURSIVE IndexLoop(_, _, _)
RECURSIVE IndexEntry(_, _, _)
RECURSIVE IndexAppend(_, _, _, _)

\* for s in sources[:6], from entry k on
IndexLoop(w, k, cl) ==
    IF k > IndexSlice(Len(sources)) THEN Ok(w, w.rst)
    ELSE IndexEntry(get_source(w, k, cl), k, cl)

\* the body of the loop, once get_source() has returned or raised
IndexEntry(g, k, cl) ==
    IF ~g.ok THEN g
    ELSE IndexAppend(g.w, Excerpt(g.val, filename(k)), k, cl)

\* rst += ..., and the rest of the loop
IndexAppend(w, x, k, cl) ==
    IF ~x.some THEN Raise(w, "IndexError")
    ELSE IndexLoop([w EXCEPT !.rst = @ \o Block(x.val, filename(k)),
                             !.blocks = Append(@, [entry |-> k, excerpt |-> x.val])],
                   k + 1, cl)

\* return compile_rst(rst), once the loop has ended or raised
IndexRendered(r, rn) ==
    IF ~r.ok THEN r ELSE compile_rst(r.w, r.val, None, rn)

make_index_html(w, cl, rn) ==
    IndexRendered(IndexLoop([w EXCEPT !.rst = IndexHeading], 1, cl), rn)

----------------------------------------------------------------------------
\* The history of the last call.

NoCall ==
    [op |-> "none", e |-> 0, ok |-> TRUE, err |-> "", val |-> <<>>,
     nclone |-> 0, nread |-> 0, nrender |-> 0, ndirs |-> 0, opened |-> FALSE,
     cret |-> None, raw |-> <<>>, rst |-> <<>>, blocks |-> <<>>,
     hadRet |-> FALSE, before |-> None, id |-> None]

\* the page an entry's file held before the call
PageOf(e) ==
    IF e \in DOMAIN sources /\ filename(e) \in DOMAIN outdir.pages
    THEN Some(outdir.pages[filename(e)])
    ELSE None

Called(op, e, r, id) ==
    [op |-> op, e |-> e, ok |-> r.ok, err |-> r.err, val |-> r.val,
     nclone |-> r.w.nclone, nread |-> r.w.nread, nrender |-> r.w.nrender,
     ndirs |-> r.w.ndirs, opened |-> r.w.opened, cret |-> r.w.cret,
     raw |-> r.w.raw, rst |-> r.w.rst, blocks |-> r.w.blocks,
     hadRet |-> (e \in DOMAIN firstRet /\ firstRet[e].some),
     before |-> PageOf(e), id |-> id]

\* the call's effect on the state
Commit(op, e, r, id) ==
    /\ compiled' = r.w.compiled
    /\ fetched' = r.w.fetched
    /\ outdir' = r.w.outdir
    /\ tmpdirs' = r.w.tmpdirs
    /\ clones' = r.w.clones
    /\ failures' = r.w.failures
    /\ firstRet' = IF e \in DOMAIN firstRet /\ r.w.cret.some /\ ~firstRet[e].some
                   THEN [firstRet EXCEPT ![e] = r.w.cret]
                   ELSE firstRet
    /\ last' = Called(op, e, r, id)
    /\ UNCHANGED <<sources, files>>

----------------------------------------------------------------------------
\* Calls on the entries of a site (the classes used as a library).

Entries == DOMAIN sources

NoClone == [kind |-> "failed", readme |-> <<>>]

\* The outcomes of the external tools a call on the entries E can meet: only
\* a git entry clones.
CloneChoices(E) ==
    IF \E e \in E : sources[e].kind = "git" THEN CloneOutcomes ELSE {NoClone}

ReadCall(e) ==
    /\ calls < MaxCalls
    /\ \E cl \in CloneChoices({e}) : Commit("read", e, read(World, e, cl), None)
    /\ calls' = calls + 1
    /\ UNCHANGED <<pc, idx, run, snapshot>>

GetSourceCall(e) ==
    /\ calls < MaxCalls
    /\ \E cl \in CloneChoices({e}) :
           Commit("get_source", e, get_source(World, e, cl), None)
    /\ calls' = calls + 1
    /\ UNCHANGED <<pc, idx, run, snapshot>>

CompileCall(e) ==
    /\ calls < MaxCalls
    /\ \E cl \in CloneChoices({e}), rn \in RenderOutcomes :
           Commit("compile", e, compile(World, e, cl, rn), None)
    /\ calls' = calls + 1
    /\ UNCHANGED <<pc, idx, run, snapshot>>

WriteCall(e) ==
    /\ calls < MaxCalls
    /\ \E cl \in CloneChoices({e}), rn \in RenderOutcomes :
           Commit("write", e, write(World, e, cl, rn), None)
    /\ calls' = calls + 1
    /\ UNCHANGED <<pc, idx, run, snapshot>>

\* The environment: a local source file is edited, removed or created.
SourceTexts == {None, Some(HelloSrc), Some(OtherSrc)}

EditSource(p) ==
    /\ \E t \in SourceTexts \ {files[p]} : files' = [files EXCEPT ![p] = t]
    /\ UNCHANGED <<sources, compiled, fetched, outdir, tmpdirs, clones,
                   failures, firstRet, last, calls, pc, idx, run, snapshot>>

----------------------------------------------------------------------------
\* The functions applied to inputs: one application in each behaviour.

FnGetSource(e) ==
    /\ last.op = "none"
    /\ Commit("get_source", e, get_source(World, e, NoClone), None)
    /\ UNCHANGED <<calls, pc, idx, run, snapshot>>

\* compile_rst on the markup of entry e, with and without its file name as
\* the comments_id
FnCompileRstOn(g, e) ==
    /\ g.ok
    /\ \E id \in {None, Some(filename(e))}, rn \in RenderOutcomes :
           Commit("compile_rst", e, compile_rst(g.w, g.val, id, rn), id)

FnCompileRst(e) ==
    /\ last.op = "none"
    /\ FnCompileRstOn(get_source(World, e, NoClone), e)
    /\ UNCHANGED <<calls, pc, idx, run, snapshot>>

FnMakeIndex ==
    /\ last.op = "none"
    /\ \E rn \in RenderOutcomes :
           Commit("make_index_html", 0, make_index_html(World, NoClone, rn), None)
    /\ UNCHANGED <<calls, pc, idx, run, snapshot>>

----------------------------------------------------------------------------
\* The main block of the script.

\* f.write(make_index_html(SOURCES)), once make_index_html has returned or
\* raised
IndexWritten(r) ==
    IF ~r.ok THEN r
    ELSE Ok([r.w EXCEPT !.outdir = PutPage(@, IndexName, r.val)], r.val)

\* with open(os.path.join(outputdir, "index.html"), "w") as f:
\*     f.write(make_index_html(SOURCES))
write_index(w, cl, rn) ==
    IndexWritten(make_index_html(Opened(w, IndexName), cl, rn))

\* copytree that merges into an existing destination
copytreeMerge(w) == Ok([w EXCEPT !.outdir.resources = TRUE], <<>>)

\* shutil.copytree('resources', os.path.join(outputdir, 'resources'))
copytree(w) ==
    IF w.outdir.resources
    THEN Raise(w, "FileExistsError")
    ELSE Ok([w EXCEPT !.outdir.resources = TRUE], <<>>)

\* if not os.path.exists(outputdir): os.makedirs(outputdir)
makedirs(o) == IF o.exists THEN o ELSE [o EXCEPT !.exists = TRUE]

Fresh == [e \in Entries |-> None]
Zero == [e \in Entries |-> 0]

\* A run of the script starts: a new process, with new entry objects.
MainStart ==
    /\ pc \in {"start", "done", "failed"}
    /\ run < MaxRuns
    /\ run' = run + 1
    /\ snapshot' = outdir
    /\ outdir' = makedirs(outdir)
    /\ compiled' = Fresh
    /\ fetched' = Fresh
    /\ firstRet' = Fresh
    /\ clones' = Zero
    /\ failures' = Zero
    /\ last' = [NoCall EXCEPT !.op = "start"]
    /\ idx' = 1
    /\ pc' = IF Len(sources) = 0 THEN "index" ELSE "write"
    /\ UNCHANGED <<sources, files, tmpdirs, calls>>

\* The outcomes of the external tools that the runs of the script are checked
\* against: the clone succeeds or fails, the renderer prints a page or nothing.
ScriptClones(E) == {cl \in CloneChoices(E) : cl.kind # "noreadme"}
ScriptRenders == RenderOutcomes \ {"bare"}

\* a step of the main block has returned (the next step is `next`) or raised
\* (the process ends)
Step(op, e, r, next, nextidx) ==
    /\ Commit(op, e, r, None)
    /\ pc' = IF r.ok THEN next ELSE "failed"
    /\ idx' = IF r.ok THEN nextidx ELSE idx
    /\ UNCHANGED <<calls, run, snapshot>>

\* for s in SOURCES: s.write(outputdir)
MainWrite ==
    /\ pc = "write"
    /\ \E cl \in ScriptClones({idx}), rn \in ScriptRenders :
           Step("write", idx, write(World, idx, cl, rn),
                IF idx = Len(sources) THEN "index" ELSE "write", idx + 1)

MainIndex ==
    /\ pc = "index"
    /\ \E cl \in ScriptClones(1..IndexSlice(Len(sources))), rn \in ScriptRenders :
           Step("write_index", 0, write_index(World, cl, rn), "copy", idx)

MainCopy ==
    /\ pc = "copy"
    /\ Step("copytree", 0, copytree(World), "done", idx)

----------------------------------------------------------------------------
\* Sites and initial states.

TextEntry(title, date, path) ==
    [kind |-> "text", title |-> title, date |-> date, source |-> path]

GitEntry(title, date, url) ==
    [kind |-> "git", title |-> title, date |-> date, source |-> url]

NoDir == [exists |-> FALSE, pages |-> <<>>, by |-> <<>>, resources |-> FALSE]

InitObjects ==
    /\ compiled = Fresh
    /\ fetched = Fresh
    /\ firstRet = Fresh
    /\ clones = Zero
    /\ failures = Zero
    /\ tmpdirs = <<>>
    /\ last = NoCall
    /\ calls = 0
    /\ idx = 1

\* A site of one local entry and one git entry, used as a library; the
\* output directory is missing, empty, or holds an old page of the first entry.
LibSite ==
    <<TextEntry(TitleHello, Date2020, "hello.rst"),
      GitEntry(TitleGit, Date2017, "git@host:repo")>>

Init ==
    /\ sources = LibSite
    /\ files \in [{"hello.rst"} -> {None, Some(HelloSrc)}]
    /\ outdir \in {NoDir,
                   [NoDir EXCEPT !.exists = TRUE],
                   [exists |-> TRUE,
                    pages |-> (filename(1) :> OldPage),
                    by |-> (filename(1) :> 0),
                    resources |-> FALSE]}
    /\ InitObjects
    /\ pc = "lib"
    /\ run = 1
    /\ snapshot = NoDir

Next ==
    \/ \E e \in Entries : ReadCall(e)
    \/ \E e \in Entries : GetSourceCall(e)
    \/ \E e \in Entries : CompileCall(e)
    \/ \E e \in Entries : WriteCall(e)
    \/ EditSource("hello.rst")

Spec == Init /\ [][Next]_vars

\* The functions on their inputs: sites of up to MaxEntries entries.
FnFiles ==
    [p \in {"hello.rst", "short.rst", "long.rst", "edge.rst", "empty.rst"} |->
        CASE p = "hello.rst" -> Some(HelloSrc)
          [] p = "short.rst" -> Some(OneLineSrc)
          [] p = "long.rst" -> Some(Rep("a", ExcerptLen))
          [] p = "edge.rst" -> Some(Rep("a", ExcerptLen - 1) \o <<NL, "=", "b">>)
          [] OTHER -> Some(<<>>)]

CommonEntries ==
    {TextEntry(TitleHello, Date2020, "hello.rst"),
     TextEntry(TitleEq, Date2017, "short.rst")}

LongEntry == TextEntry(TitleLong, Date2017, "long.rst")

EdgeEntries ==
    {LongEntry,
     TextEntry(TitleEdge, Date2017, "edge.rst"),
     TextEntry(TitleEmpty, Date2020, "empty.rst"),
     TextEntry(TitleTag, Date2020, "hello.rst")}

CommonSites == UNION {[1..n -> CommonEntries] : n \in 0..MaxEntries}

Sites ==
    CommonSites
    \cup {[s EXCEPT ![Len(s)] = LongEntry] : s \in CommonSites \ {<<>>}}
    \cup {<<x>> : x \in EdgeEntries}

InitFn ==
    /\ sources \in Sites
    /\ files = FnFiles
    /\ outdir = NoDir
    /\ InitObjects
    /\ pc = "lib"
    /\ run = 1
    /\ snapshot = NoDir

NextFn ==
    \/ \E e \in Entries : FnGetSource(e)
    \/ \E e \in Entries : FnCompileRst(e)
    \/ FnMakeIndex

SpecFn == InitFn /\ [][NextFn]_vars

\* The script, run up to MaxRuns times against one output directory.
MainSite ==
    <<TextEntry(TitleHello, Date2020, "hello.rst"),
      GitEntry(TitleGit, Date2017, "git@host:repo")>>

InitMain ==
    /\ sources = MainSite
    /\ files = [p \in {"hello.rst"} |-> Some(HelloSrc)]
    /\ outdir = NoDir
    /\ InitObjects
    /\ pc = "start"
    /\ run = 0
    /\ snapshot = NoDir

NextMain ==
    \/ MainStart
    \/ MainWrite
    \/ MainIndex
    \/ MainCopy
    \/ EditSource("hello.rst")

SpecMain == InitMain /\ [][NextMain]_vars

----------------------------------------------------------------------------
\* The claims.

\* "Hello\n=====\n\nPosted on 2020-01-01\n\nBody text.\n"
HelloPostedOnce ==
    <<"H", "e", "l", "l", "o", "\n", "=", "=", "=", "=", "=", "\n", "\n", "P", "o", "s", "t", "e", "d", " ", "o", "n", " ", "2", "0", "2", "0", "-", "0", "1", "-", "0", "1", "\n", "\n", "B", "o", "d", "y", " ", "t", "e", "x", "t", ".", "\n">>

\* "Hello\n=====\n\nPosted on 2020-01-01\n\n\nBody text.\n"
HelloPostedTwice ==
    <<"H", "e", "l", "l", "o", "\n", "=", "=", "=", "=", "=", "\n", "\n", "P", "o", "s", "t", "e", "d", " ", "o", "n", " ", "2", "0", "2", "0", "-", "0", "1", "-", "0", "1", "\n", "\n", "\n", "B", "o", "d", "y", " ", "t", "e", "x", "t", ".", "\n">>

\* get_source() has returned for an entry dated 2020-01-01 whose source file
\* holds "Hello\n=====\n\nBody text.\n"
HelloCase ==
    /\ last.op = "get_source"
    /\ last.ok
    /\ sources[last.e].kind = "text"
    /\ sources[last.e].date = Date2020
    /\ files[sources[last.e].source] = Some(HelloSrc)

\* C1, as stated: for a local-file entry with date "2020-01-01" whose source is
\* "Hello\n=====\n\nBody text.\n", get_source() returns exactly
\* "Hello\n=====\n\nPosted on 2020-01-01\n\nBody text.\n", with no extra line.
C1_Original == HelloCase => last.val = HelloPostedOnce

\* C1, amended: for that entry get_source() returns exactly
\* "Hello\n=====\n\nPosted on 2020-01-01\n\n\nBody text.\n": the inserted list
\* element brings its own line break before and after the "Posted on" text and
\* the blank third line of the source is kept after it, so that one blank
\* line precedes the text and two follow it.
C1_Amended == HelloCase => last.val = HelloPostedTwice

C1_Witness == HelloCase /\ Len(last.val) = Len(HelloSrc) + Len(PostedLine(last.e)) + 1

\* compile() has returned in the last call, and had returned before for the
\* same entry
LaterCompile ==
    /\ last.op \in {"compile", "write"}
    /\ last.hadRet
    /\ last.cret.some

\* C2: once the first compile() of an entry has returned, every later compile()
\* returns the identical value, without reading the source again and without
\* invoking the renderer again, whatever the renderer returned the first time
\* and even if the source has changed.
C2_Memoized ==
    LaterCompile =>
        /\ last.cret.val = firstRet[last.e].val
        /\ last.nread = 0
        /\ last.nclone = 0
        /\ last.nrender = 0

\* C3, as stated: for every git-backed entry and every sequence of calls on it,
\* calls after a failed call included, the clone is invoked at most once.
C3_Original == \A e \in Entries : clones[e] <= 1

\* C3, amended: a call on a git-backed entry invokes the clone exactly when no
\* earlier call has read README.rst; a call that fails (the clone failed or
\* README.rst is missing) caches nothing, so the next call clones again, and
\* once a call has succeeded the clone is never invoked again: the number of
\* clones is the number of failed calls, plus one if a call has succeeded.
C3_Amended ==
    \A e \in Entries :
        clones[e] = failures[e] + (IF fetched[e].some THEN 1 ELSE 0)

C3_Witness == \E e \in Entries : clones[e] = 2 /\ failures[e] = 1 /\ fetched[e].some

\* C4: a scratch directory that GitBlogEntry.read() created has been removed
\* when read() returns or raises, whether README.rst was read, the clone
\* failed or README.rst is absent.
C4_ScratchRemoved == \A d \in DOMAIN tmpdirs : tmpdirs[d].by # "read"

C4_Witness ==
    /\ last.op = "read"
    /\ last.nclone = 1
    /\ last.ndirs = 1
    /\ last.err = "IOError"

\* the renderer's output holds each marker exactly once
OneOfEach(out) ==
    /\ Count(out, HeadTag) = 1
    /\ Count(out, BodyTag) = 1
    /\ Count(out, EndBodyTag) = 1

\* C5: given renderer output with exactly one "<head>", "<body>" and "</body>",
\* compile_rst returns HTML in which the icon follows "<head>", the header
\* follows "<body>", the comment widget (when an identifier is supplied) comes
\* before the footer and the footer directly before "</body>", only the footer
\* precedes "</body>" when no identifier is supplied, and each marker still
\* occurs exactly once.
C5_Spliced ==
    (last.op = "compile_rst" /\ OneOfEach(last.raw)) =>
        /\ Contains(last.val, HeadTag \o <<NL>> \o ICON)
        /\ Contains(last.val, BodyTag \o <<NL>> \o HEADER)
        /\ Truthy(last.id) =>
               Contains(last.val,
                        DISQUS(SiteUrl \o last.id.val, last.id.val)
                            \o FOOTER \o EndBodyTag)
        /\ ~Truthy(last.id) =>
               /\ Contains(last.val, FOOTER \o EndBodyTag)
               /\ ~Contains(last.val, DISQUS_1)
        /\ Count(last.val, FOOTER) = 1
        /\ OneOfEach(last.val)

RECURSIVE Blocks(_, _)
\* the markup of the blocks from the i-th on
Blocks(blocks, i) ==
    IF i > Len(blocks) THEN <<>>
    ELSE Block(blocks[i].excerpt, filename(blocks[i].entry)) \o Blocks(blocks, i + 1)

\* C6: for an entry sequence of length n, make_index_html builds exactly
\* min(n, 6) excerpt blocks, one for each of the first 6 entries, in the order
\* of the sequence; later entries contribute nothing and nothing is padded.
C6_FirstSix ==
    (last.op = "make_index_html" /\ last.ok) =>
        /\ Len(last.blocks) = Min(Len(sources), 6)
        /\ \A i \in DOMAIN last.blocks : last.blocks[i].entry = i
        /\ last.rst = IndexHeading \o Blocks(last.blocks, 1)
        /\ Count(last.rst, ReadMoreOpen) = Min(Len(sources), 6)

C6_Witness ==
    /\ last.op = "make_index_html"
    /\ last.ok
    /\ Len(sources) > 6
    /\ Len(last.blocks) = 6

\* the raw source of entry e, as read() returns it
RawSource(e) == files[sources[e].source].val

\* the entries make_index_html processes
Indexed == 1..Min(Len(sources), 6)

\* C7, as stated: when make_index_html processes an entry whose raw source has
\* fewer than 2 lines, the rewrite of lines 0 and 1 fails with an out-of-bounds
\* error and no index page is produced.
C7_Original ==
    (/\ last.op = "make_index_html"
     /\ \E e \in Indexed : Len(Split(RawSource(e), <<NL>>)) < 2)
        => (~last.ok /\ last.err = "IndexError")

\* C7, amended: a raw source of fewer than 2 lines does not make
\* make_index_html fail, since get_source() adds the "Posted on" text and its
\* line breaks before the lines are counted.  The rewrite of line 1 fails with
\* an out-of-bounds error, and no index page is produced, exactly when the
\* first 300 characters of get_source() hold no line break, that is when the
\* first line of the raw source of one of the first 6 entries has 300
\* characters or more.
C7_Amended ==
    last.op = "make_index_html" =>
        /\ ~last.ok <=> \E e \in Indexed : Len(Split(RawSource(e), <<NL>>)[1]) >= 300
        /\ ~last.ok => (last.err = "IndexError" /\ last.val = <<>>)

C7_Witness ==
    /\ last.op = "make_index_html"
    /\ last.err = "IndexError"
    /\ \E e \in Indexed : Len(Split(RawSource(e), <<NL>>)[1]) >= 300

\* C8, as stated: for every entry among the first 6, whatever its title, date
\* and source, the excerpt built from the first 300 characters of get_source()
\* contains no "=".
C8_Original ==
    last.op = "make_index_html" =>
        \A i \in DOMAIN last.blocks : ~Contains(last.blocks[i].excerpt, <<"=">>)

\* C8, amended: every "=" of the first 300 characters of get_source() is
\* replaced by "-", but the file name, which is derived from the title, is
\* put into line 0 after the replacement: the excerpt contains exactly the
\* "=" characters of the entry's file name, and none when the title has none.
C8_Amended ==
    last.op = "make_index_html" =>
        \A i \in DOMAIN last.blocks :
            Count(last.blocks[i].excerpt, <<"=">>)
                = Count(filename(last.blocks[i].entry), <<"=">>)

C8_Witness ==
    /\ last.op = "make_index_html"
    /\ \E i \in DOMAIN last.blocks :
           /\ Contains(Slice(RawSource(last.blocks[i].entry), 300), <<"=">>)
           /\ ~Contains(last.blocks[i].excerpt, <<"=">>)

\* a run of the script against the output directory that an earlier run has
\* populated (its assets are there) has reached the asset-copy step
SecondCopy ==
    /\ run >= 2
    /\ snapshot.resources
    /\ last.op = "copytree"

\* the pages this run found in the output directory are as it found them
Untouched ==
    \A n \in DOMAIN snapshot.pages :
        /\ outdir.pages[n] = snapshot.pages[n]
        /\ outdir.by[n] = snapshot.by[n]

\* C9, as stated: a second run against the output directory populated by a
\* first run fails on the asset-copy step with a destination-exists error and
\* has left the entry pages and the index page of the first run untouched: it
\* has not rewritten or changed them.
C9_Original ==
    SecondCopy => (last.err = "FileExistsError" /\ Untouched)

\* C9, amended: a second run against the output directory populated by a
\* first run cannot complete: when it reaches the asset-copy step, that step
\* fails with a destination-exists error, and by then the run has opened,
\* truncated and rewritten every entry page and the index page, which hold
\* this run's renderings and not the first run's.
C9_Amended ==
    /\ (run >= 2 /\ snapshot.resources) => pc # "done"
    /\ SecondCopy =>
           /\ last.err = "FileExistsError"
           /\ pc = "failed"
           /\ \A e \in Entries :
                  /\ outdir.by[filename(e)] = run
                  /\ outdir.pages[filename(e)] = compiled[e].val
           /\ outdir.by[IndexName] = run

C9_Witness == SecondCopy /\ last.err = "FileExistsError" /\ ~Untouched

\* C10: write(outputdir) opens and truncates the entry's file before it calls
\* compile(): when compile() raises, the file exists and is empty and what it
\* held before is lost; the file holds the rendered page only when compile()
\* has returned.
C10_TruncatedFirst ==
    (last.op = "write" /\ outdir.exists) =>
        /\ filename(last.e) \in DOMAIN outdir.pages
        /\ ~last.ok => (~last.cret.some /\ outdir.pages[filename(last.e)] = <<>>)
        /\ last.ok => (last.cret.some
                       /\ outdir.pages[filename(last.e)] = last.cret.val)

C10_Witness ==
    /\ last.op = "write"
    /\ outdir.exists
    /\ ~last.ok
    /\ Truthy(last.before)
    /\ outdir.pages[filename(last.e)] = <<>>

====
